---- MODULE Spec2Model ----
(***************************************************************************)
(* A model of poiidx: the administrative hierarchy and nearest-POI queries *)
(* of PoiIdx (poiIdx.py), the two extract scanners (scanner.py) writing    *)
(* the Poi and AdministrativeBoundary tables inside one transaction each,  *)
(* and the life of a PoiIdx instance: schema, region catalog, finder and   *)
(* the module-level functions of the package (__init__.py).                *)
(***************************************************************************)
EXTENDS Integers, Sequences, FiniteSets, TLC

VARIABLES
    admin_table,   \* rows of the AdministrativeBoundary table, in primary-key order
    poi_table,     \* rows of the Poi table, in primary-key order
    last,          \* the last hierarchy call: what it queried, looked up and returned
    pc,            \* "idle", the scan running, "done" or "failed"
    filter_config, \* the filter rule table of the running poi_scan
    region_key,    \* the region of the running scan
    stream,        \* the entities of the extract file, in file order
    cursor,        \* the position in the stream of the next entity
    txn,           \* the rows created inside the open transaction
    created,       \* how many rows the scan has created so far
    begun,         \* both tables as they were when the scan began
    tables,        \* the names of the tables that exist in the database
    system_row,    \* the row of the System table, if there is one
    finder,        \* PoiIdx.__finder: None or the RegionFinder built
    probe,         \* instrumentation: finders built, tree descents per shape key
    init_called,   \* whether the module-level init() has been called
    out            \* the last call on the index: its outcome and effects

storage == <<admin_table, poi_table>>

scan == <<pc, filter_config, region_key, stream, cursor, txn, created, begun>>

index == <<tables, system_row, finder, probe, init_called, out>>

vars == <<admin_table, poi_table, last, pc, filter_config, region_key, stream,
          cursor, txn, created, begun, tables, system_row, finder, probe,
          init_called, out>>

-----------------------------------------------------------------------------
(* Optional values: Python's None and a present value.                      *)

None == <<>>

Some(x) == <<x>>

-----------------------------------------------------------------------------
(* Bounds and input alphabets.                                              *)

MaxBoundaries == 2

Points == {"p1", "p2"}

\* Boundary polygons nest: the inner one covers p1, the outer one p1 and p2.
Geometries == {{"p1"}, {"p1", "p2"}}

Names == {"Mitte", "Berlin", "Germany"}

\* admin_level values: below the country level, the country level, a level
\* within the plausibility threshold and one beyond it.
Levels == {1, 2, 4, 10}

WikidataIds == {None, Some("Q64")}

\* What the country lookup can answer: no name, or a name.
CountryAnswers == {None, Some("Germany")}

CountryLevel == 2

CountryPlausibleLevel == 6

-----------------------------------------------------------------------------
(* Decimal conversion, as str(int) does for a CharField value.              *)

Digit == <<"0", "1", "2", "3", "4", "5", "6", "7", "8", "9">>

RECURSIVE str(_)
str(n) ==
    IF n < 10 THEN Digit[n + 1]
    ELSE str(n \div 10) \o Digit[(n % 10) + 1]

-----------------------------------------------------------------------------
(* AdministrativeBoundary rows.                                             *)

AdministrativeBoundary(osm_id, name, region, admin_level, coordinates, wikidata_id) ==
    [osm_id |-> osm_id, name |-> name, region |-> region,
     admin_level |-> admin_level, coordinates |-> coordinates,
     wikidata_id |-> wikidata_id]

\* What a stored boundary can hold besides its ids.
BoundaryContents ==
    [name : Names, admin_level : Levels, geometry : Geometries,
     wikidata_id : WikidataIds]

RECURSIVE SetsUpTo(_, _)
SetsUpTo(S, k) ==
    IF k = 0 THEN {{}}
    ELSE LET prev == SetsUpTo(S, k - 1)
         IN  prev \cup {s \cup {x} : s \in prev, x \in S}

RECURSIVE TableOf(_, _)
\* The rows for a set of contents, numbered from osm id n on.
TableOf(S, n) ==
    IF S = {} THEN <<>>
    ELSE LET c == CHOOSE x \in S : TRUE
         IN  <<AdministrativeBoundary(str(n), c.name, "berlin", c.admin_level,
                                      Some(c.geometry), c.wikidata_id)>>
             \o TableOf(S \ {c}, n + 1)

-----------------------------------------------------------------------------
(* PoiIdx.get_administrative_hierarchy                                      *)

ST_Covers(coordinates, shape) ==
    coordinates # None /\ shape \in coordinates[1]

\* The orders in which the storage may return the covering rows:
\* ORDER BY admin_level DESC, rows of one level in any order.
CoveringQuery(table, shape) ==
    LET rows == {i \in DOMAIN table : ST_Covers(table[i].coordinates, shape)}
        n    == Cardinality(rows)
    IN  {[k \in 1..n |-> table[f[k]]] :
            f \in {g \in [1..n -> rows] :
                     /\ \A a, b \in 1..n : a # b => g[a] # g[b]
                     /\ \A a, b \in 1..n :
                          a < b => table[g[a]].admin_level >= table[g[b]].admin_level}}

\* A check that never sees the stored country.
HasCountry_Never(hierarchy) == FALSE

\* any(admin.admin_level == 2 for admin in hierarchy)
HasCountry(hierarchy) ==
    \E i \in DOMAIN hierarchy : hierarchy[i].admin_level = CountryLevel

\* The scan without reversed(): the most local entry with a wikidata id.
AdminWithWikidata_Forward(hierarchy) ==
    LET with == {i \in DOMAIN hierarchy : hierarchy[i].wikidata_id # None}
    IN  IF with = {} THEN None
        ELSE Some(hierarchy[CHOOSE i \in with : \A j \in with : j >= i])

\* for admin in reversed(hierarchy): the first with a wikidata id, if any.
AdminWithWikidata(hierarchy) ==
    LET with == {i \in DOMAIN hierarchy : hierarchy[i].wikidata_id # None}
    IN  IF with = {} THEN None
        ELSE Some(hierarchy[CHOOSE i \in with : \A j \in with : j <= i])

\* The lookup made for any entry with a wikidata id, whatever its level.
CountryQueryArgument_NoThreshold(hierarchy) ==
    IF HasCountry(hierarchy) THEN None ELSE AdminWithWikidata(hierarchy)

\* The entry handed to country_query, if the lookup is made at all.
CountryQueryArgument(hierarchy) ==
    IF HasCountry(hierarchy) THEN None
    ELSE LET admin_with_wikidata == AdminWithWikidata(hierarchy)
         IN  IF /\ admin_with_wikidata # None
                /\ admin_with_wikidata[1].admin_level <= CountryPlausibleLevel
             THEN admin_with_wikidata
             ELSE None

CountryAdmin(name) ==
    AdministrativeBoundary("0", name, "global", CountryLevel, None, None)

\* The synthetic entry put in front instead of appended.
get_administrative_hierarchy_Insert(hierarchy, answer) ==
    IF CountryQueryArgument(hierarchy) # None /\ answer # None
    THEN <<CountryAdmin(answer[1])>> \o hierarchy
    ELSE hierarchy

\* The list returned for the storage result `hierarchy` when the country
\* lookup, if made, answers `answer`.
get_administrative_hierarchy(hierarchy, answer) ==
    IF CountryQueryArgument(hierarchy) # None /\ answer # None
    THEN Append(hierarchy, CountryAdmin(answer[1]))
    ELSE hierarchy

-----------------------------------------------------------------------------
(* PoiIdx.get_administrative_hierarchy_string                               *)

RECURSIVE CollapseNames(_, _, _, _)
\* The loop over admin_boundaries from entry i on, with last_name and items.
CollapseNames(admin_boundaries, i, last_name, items) ==
    IF i > Len(admin_boundaries) THEN items
    ELSE IF Some(admin_boundaries[i].name) # last_name
         THEN CollapseNames(admin_boundaries, i + 1,
                            Some(admin_boundaries[i].name),
                            Append(items, admin_boundaries[i].name))
         ELSE CollapseNames(admin_boundaries, i + 1, last_name, items)

RECURSIVE Join_Trailing(_, _)
\* A join that also puts the separator after the last item.
Join_Trailing(sep, items) ==
    IF items = <<>> THEN ""
    ELSE items[1] \o sep \o Join_Trailing(sep, Tail(items))

RECURSIVE Join(_, _)
\* sep.join(items)
Join(sep, items) ==
    IF items = <<>> THEN ""
    ELSE IF Len(items) = 1 THEN items[1]
         ELSE items[1] \o sep \o Join(sep, Tail(items))

\* A loop that appends every name, collapsing nothing.
HierarchyItems_NoCollapse(admin_boundaries) ==
    [i \in 1..Len(admin_boundaries) |-> admin_boundaries[i].name]

HierarchyItems(admin_boundaries) ==
    CollapseNames(admin_boundaries, 1, None, <<>>)

get_administrative_hierarchy_string(admin_boundaries) ==
    Join(", ", HierarchyItems(admin_boundaries))

-----------------------------------------------------------------------------
(* The hierarchy calls as actions.                                          *)

NoScan ==
    /\ pc = "idle"
    /\ filter_config = <<>>
    /\ region_key = ""
    /\ stream = <<>>
    /\ cursor = 1
    /\ txn = <<>>
    /\ created = 0
    /\ begun = [poi_table |-> poi_table, admin_table |-> admin_table]

\* The tables of the schema, by table name.
TABLES == {"poi", "system", "administrativeboundary", "country"}

NoOut ==
    [op |-> "none", arg |-> "", object |-> 0, error |-> None, value |-> None,
     log |-> <<>>]

\* An index with its schema in place and nothing called on it.
NoIndex ==
    /\ tables = TABLES
    /\ system_row = None
    /\ finder = None
    /\ probe = [built |-> 0, descents |-> [k \in {"p1", "p2"} |-> 0]]
    /\ init_called = FALSE
    /\ out = NoOut

NoCall ==
    [op |-> "none", shape |-> "p1", query |-> <<>>, argument |-> None,
     answer |-> None, hierarchy |-> <<>>, items |-> <<>>, string |-> ""]

CallGetAdministrativeHierarchy ==
    \E shape \in Points, answer \in CountryAnswers :
      \E hierarchy \in CoveringQuery(admin_table, shape) :
        /\ last' = [op |-> "get_administrative_hierarchy",
                    shape |-> shape,
                    query |-> hierarchy,
                    argument |-> CountryQueryArgument(hierarchy),
                    answer |-> answer,
                    hierarchy |-> get_administrative_hierarchy(hierarchy, answer),
                    items |-> <<>>,
                    string |-> ""]
        /\ UNCHANGED <<storage, scan, index>>

CallGetAdministrativeHierarchyString ==
    \E shape \in Points, answer \in CountryAnswers :
      \E hierarchy \in CoveringQuery(admin_table, shape) :
        LET admin_boundaries == get_administrative_hierarchy(hierarchy, answer)
        IN  /\ last' = [op |-> "get_administrative_hierarchy_string",
                        shape |-> shape,
                        query |-> hierarchy,
                        argument |-> CountryQueryArgument(hierarchy),
                        answer |-> answer,
                        hierarchy |-> admin_boundaries,
                        items |-> HierarchyItems(admin_boundaries),
                        string |-> get_administrative_hierarchy_string(admin_boundaries)]
            /\ UNCHANGED <<storage, scan, index>>

InitHierarchy ==
    /\ admin_table \in {TableOf(S, 1) : S \in SetsUpTo(BoundaryContents, MaxBoundaries)}
    /\ poi_table = <<>>
    /\ last = NoCall
    /\ NoScan
    /\ NoIndex

NextHierarchy ==
    \/ CallGetAdministrativeHierarchy
    \/ CallGetAdministrativeHierarchyString

SpecHierarchy == InitHierarchy /\ [][NextHierarchy]_vars

-----------------------------------------------------------------------------
(* Entities of an extract file, and what the scanners read of them.         *)

MaxStream == 2

TagsGet(tags, k) == IF k \in DOMAIN tags THEN Some(tags[k]) ELSE None

\* Python truth of tags.get(k): a value that is there and not empty.
Truthy(value) == value # None /\ value[1] # ""

\* The tag mapping with key k when a value is given, the empty one otherwise.
Tag(k, value) == IF value = None THEN <<>> ELSE (k :> value[1])

\* What poi_scan reads: the name, the keys of the filter rules and the place
\* tag, which here only named entities carry.
PoiTags ==
    {t \in {Tag("name", n) @@ Tag("amenity", a) @@ Tag("shop", s) @@ Tag("place", p) :
                n \in {None, Some("Cafe Mitte")},
                a \in {None, Some(""), Some("cafe")},
                s \in {None, Some("yes")},
                p \in {None, Some("city")}} :
        "place" \in DOMAIN t => "name" \in DOMAIN t}

\* What administrative_scan reads. An admin_level is kept as its characters.
AdminTags ==
    {Tag("boundary", b) @@ Tag("name", n) @@ Tag("admin_level", a)
       @@ Tag("wikidata", w) :
        b \in {None, Some("administrative")},
        n \in {None, Some("Mitte")},
        a \in {None, Some(<<"1", "0">>), Some(<<"x">>)},
        w \in {None, Some("Q64")}}

\* A node always has a location; another object may have no geometry.
Shapes ==
    {[type_str |-> "n", geo |-> TRUE], [type_str |-> "w", geo |-> TRUE],
     [type_str |-> "w", geo |-> FALSE]}

Entity(shape, tags) ==
    [type_str |-> shape.type_str, geo |-> shape.geo, tags |-> tags]

PoiEntities == {Entity(sh, t) : sh \in Shapes, t \in PoiTags}

AdminEntities ==
    {Entity(sh, t) : sh \in {x \in Shapes : x.type_str = "w"}, t \in AdminTags}

RECURSIVE StreamsUpTo(_, _)
StreamsUpTo(S, k) ==
    IF k = 0 THEN {<<>>}
    ELSE LET prev == StreamsUpTo(S, k - 1)
         IN  prev \cup {Append(s, x) : s \in {q \in prev : Len(q) = k - 1}, x \in S}

\* The geometry __geo_interface__ gives: a node's point, another object's area.
shape(obj) == IF obj.type_str = "n" THEN {"p1"} ELSE {"p1", "p2"}

\* int(value), as an IntegerField adapts it; None where it raises.
IsDigit(c) == \E d \in 1..10 : Digit[d] = c

RECURSIVE DecimalValue(_)
DecimalValue(cs) ==
    IF cs = <<>> THEN 0
    ELSE DecimalValue(SubSeq(cs, 1, Len(cs) - 1)) * 10
         + ((CHOOSE d \in 1..10 : Digit[d] = cs[Len(cs)]) - 1)

int(cs) ==
    IF cs # <<>> /\ \A i \in DOMAIN cs : IsDigit(cs[i])
    THEN Some(DecimalValue(cs))
    ELSE None

-----------------------------------------------------------------------------
(* scanner.administrative_scan                                              *)

\* The processor's filters: TagFilter(boundary=administrative),
\* KeyFilter(name), KeyFilter(admin_level).
AdministrativeProcessor(obj) ==
    /\ TagsGet(obj.tags, "boundary") = Some("administrative")
    /\ "name" \in DOMAIN obj.tags
    /\ "admin_level" \in DOMAIN obj.tags

\* create() called with name and region interchanged.
AdministrativeScanCreate_Swapped(obj, id, region) ==
    IF ~obj.geo THEN None
    ELSE LET admin_level == TagsGet(obj.tags, "admin_level")
             name        == TagsGet(obj.tags, "name")
         IN  IF admin_level = None \/ name = None THEN None
             ELSE Some([osm_id |-> str(id), name |-> region, region |-> name[1],
                        admin_level |-> admin_level[1],
                        coordinates |-> Some(shape(obj)),
                        wikidata_id |-> TagsGet(obj.tags, "wikidata")])

\* The arguments of AdministrativeBoundary.create for obj with id `id`, or
\* None where the loop body continues without creating.
AdministrativeScanCreate(obj, id, region) ==
    IF ~obj.geo THEN None
    ELSE LET geom        == shape(obj)
             admin_level == TagsGet(obj.tags, "admin_level")
             name        == TagsGet(obj.tags, "name")
         IN  IF admin_level = None \/ name = None THEN None
             ELSE Some([osm_id |-> str(id), name |-> name[1], region |-> region,
                        admin_level |-> admin_level[1],
                        coordinates |-> Some(geom),
                        wikidata_id |-> TagsGet(obj.tags, "wikidata")])

-----------------------------------------------------------------------------
(* scanner.poi_scan                                                         *)

True == [kind |-> "True"]

Equals(v) == [kind |-> "str", value |-> v]

\* Two rule tables over the keys amenity and shop.
FilterConfigs ==
    { << [symbol |-> "cafe",
          filters |-> << [amenity |-> True] >>],
         [symbol |-> "shop",
          filters |-> << [shop |-> Equals("yes")] >>] >>,
      << [symbol |-> "cafe",
          filters |-> << [amenity |-> Equals("cafe"), shop |-> True],
                         [amenity |-> Equals("cafe")] >>],
         [symbol |-> "marker",
          filters |-> << [amenity |-> True], [shop |-> True] >>] >> }

all_filters_keys(config) ==
    UNION {UNION {DOMAIN config[i].filters[j] : j \in DOMAIN config[i].filters} :
             i \in DOMAIN config}

\* The processor's filters: KeyFilter(name), KeyFilter(*all_filters_keys).
PoiProcessor(config, obj) ==
    /\ "name" \in DOMAIN obj.tags
    /\ \E k \in all_filters_keys(config) : k \in DOMAIN obj.tags

\* all(matches) for one filter expression.
ExpressionMatches(filter_expression, poi_tags) ==
    \A k \in DOMAIN filter_expression :
        LET v == filter_expression[k]
        IN  IF v.kind = "True"
            THEN Truthy(TagsGet(poi_tags, k))
            ELSE TagsGet(poi_tags, k) = Some(v.value)

RECURSIVE FindExpression(_, _, _)
\* The inner loop from expression j on: the index it breaks at, or None.
FindExpression(filters, j, poi_tags) ==
    IF j > Len(filters) THEN None
    ELSE IF ExpressionMatches(filters[j], poi_tags) THEN Some(j)
         ELSE FindExpression(filters, j + 1, poi_tags)

RECURSIVE FindItem(_, _, _)
\* The outer loop from item i on: the pair of ids it breaks at, counted
\* from 0 as enumerate does, or None when nothing was found.
FindItem(config, i, poi_tags) ==
    IF i > Len(config) THEN None
    ELSE LET found == FindExpression(config[i].filters, 1, poi_tags)
         IN  IF found # None THEN Some(<<i - 1, found[1] - 1>>)
             ELSE FindItem(config, i + 1, poi_tags)

\* Where the points lie in the local plane, in metres along one line; pm is
\* the point halfway between p1 and p2.
Position == [p1 |-> 0, pm |-> 500, p2 |-> 1000]

\* LocalProjection.to_local and to_wgs: a geometry's points to the plane and
\* back.
to_local(geom) == {Position[p] : p \in geom}

to_wgs(local_geom) == {p \in DOMAIN Position : Position[p] \in local_geom}

Lowest(S) == CHOOSE x \in S : \A y \in S : x <= y

Highest(S) == CHOOSE x \in S : \A y \in S : x >= y

\* local_geom.centroid: a point geometry.
centroid(local_geom) == {(Lowest(local_geom) + Highest(local_geom)) \div 2}

\* shapely.minimum_bounding_radius(local_geom)
minimum_bounding_radius(local_geom) ==
    (Highest(local_geom) - Lowest(local_geom)) \div 2

\* The rank that stands for "unranked": the lowest priority.
MAX_RANK == 25

\* The rank bucket of a recognized place value.
PlaceRank == [city |-> 4]

\* The step function from a radius in metres to a rank bucket: the larger
\* the radius, the lower the rank number.
RadiusRank(radius) ==
    IF radius >= 1000 THEN 8 ELSE IF radius >= 100 THEN 12 ELSE 16

\* osm.calculate_rank(radius=None, place=None): None where neither input
\* gives a bucket.
calculate_rank(radius, place) ==
    IF place # None /\ place[1] \in DOMAIN PlaceRank THEN Some(PlaceRank[place[1]])
    ELSE IF radius # None THEN Some(RadiusRank(radius[1]))
    ELSE None

\* A node ranked like an area of radius 0.
PoiScanRank_NodeWithRadius(obj) ==
    LET rank == calculate_rank(Some(0), TagsGet(obj.tags, "place"))
    IN  IF rank = None THEN MAX_RANK ELSE rank[1]

\* The rank poi_scan stores for obj: that of the place tag alone for a node,
\* that of the bounding radius and the place tag for another object, and
\* MAX_RANK where calculate_rank returns None.
PoiScanRank(obj) ==
    LET rank == IF obj.type_str = "n"
                THEN calculate_rank(None, TagsGet(obj.tags, "place"))
                ELSE LET geom       == shape(obj)
                         local_geom == to_local(geom)
                         radius     == minimum_bounding_radius(local_geom)
                     IN  calculate_rank(Some(radius), TagsGet(obj.tags, "place"))
    IN  IF rank = None THEN MAX_RANK ELSE rank[1]

\* The centroid poi_scan computes for an object that is no node, brought
\* back from the local plane; lat and lon are read from it.
PoiScanCentroid(obj) == to_wgs(centroid(to_local(shape(obj))))

\* The arguments of Poi.create for obj with id `id`, or None where the loop
\* body continues without creating. An object read from a file always has an
\* id, its position here, so the obj.id check never continues.
PoiScanCreate(config, obj, id, region) ==
    LET poi_name == TagsGet(obj.tags, "name")
        found    == FindItem(config, 1, obj.tags)
    IN  IF poi_name = None THEN None
        ELSE IF found = None THEN None
        ELSE IF obj.type_str # "n" /\ ~obj.geo THEN None
        ELSE Some([osm_id |-> str(id), name |-> poi_name[1], region |-> region,
                   filter_item |-> str(found[1][1]),
                   filter_expression |-> str(found[1][2]),
                   rank |-> PoiScanRank(obj),
                   coordinates |-> Some(shape(obj)),
                   symbol |-> config[found[1][1] + 1].symbol])

-----------------------------------------------------------------------------
(* The scans as actions: one step per entity, inside db.atomic().           *)

Regions == {"berlin"}

BeginPoiScan ==
    /\ pc = "idle"
    /\ \E config \in FilterConfigs, file \in StreamsUpTo(PoiEntities, MaxStream),
          region \in Regions :
         /\ filter_config' = config
         /\ stream' = file
         /\ region_key' = region
    /\ pc' = "poi_scan"
    /\ cursor' = 1
    /\ txn' = <<>>
    /\ created' = 0
    /\ begun' = [poi_table |-> poi_table, admin_table |-> admin_table]
    /\ UNCHANGED <<storage, last, index>>

PoiScanStep ==
    /\ pc = "poi_scan"
    /\ cursor <= Len(stream)
    /\ LET obj == stream[cursor]
           row == IF PoiProcessor(filter_config, obj)
                  THEN PoiScanCreate(filter_config, obj, cursor, region_key)
                  ELSE None
       IN  /\ txn' = IF row = None THEN txn ELSE Append(txn, row[1])
           /\ created' = IF row = None THEN created ELSE created + 1
    /\ cursor' = cursor + 1
    /\ UNCHANGED <<storage, last, pc, filter_config, region_key, stream, begun,
                   index>>

BeginAdministrativeScan ==
    /\ pc = "idle"
    /\ \E file \in StreamsUpTo(AdminEntities, MaxStream), region \in Regions :
         /\ stream' = file
         /\ region_key' = region
    /\ pc' = "administrative_scan"
    /\ cursor' = 1
    /\ txn' = <<>>
    /\ created' = 0
    /\ begun' = [poi_table |-> poi_table, admin_table |-> admin_table]
    /\ UNCHANGED <<storage, last, filter_config, index>>

\* The rows written without a transaction around them: they stay.
Rollback_Autocommit ==
    /\ pc' = "failed"
    /\ txn' = <<>>
    /\ poi_table' = IF pc = "poi_scan" THEN poi_table \o txn ELSE poi_table
    /\ admin_table' = IF pc = "administrative_scan" THEN admin_table \o txn
                      ELSE admin_table

\* The exception leaves the atomic block: the transaction is rolled back.
Rollback ==
    /\ pc' = "failed"
    /\ txn' = <<>>
    /\ UNCHANGED <<storage>>

AdministrativeScanStep ==
    /\ pc = "administrative_scan"
    /\ cursor <= Len(stream)
    /\ LET obj == stream[cursor]
           row == IF AdministrativeProcessor(obj)
                  THEN AdministrativeScanCreate(obj, cursor, region_key)
                  ELSE None
       IN  IF row = None
           THEN /\ cursor' = cursor + 1
                /\ UNCHANGED <<storage, pc, txn, created>>
           ELSE IF int(row[1].admin_level) = None
           THEN \* the insert raises: admin_level is no integer
                /\ Rollback
                /\ UNCHANGED <<cursor, created>>
           ELSE /\ txn' = Append(txn, [row[1] EXCEPT
                                         !.admin_level = int(row[1].admin_level)[1]])
                /\ created' = created + 1
                /\ cursor' = cursor + 1
                /\ UNCHANGED <<storage, pc>>
    /\ UNCHANGED <<last, filter_config, region_key, stream, begun, index>>

\* Reading, processing or persisting fails at some entity, or the commit does.
ScanFails ==
    /\ pc \in {"poi_scan", "administrative_scan"}
    /\ Rollback
    /\ UNCHANGED <<last, filter_config, region_key, stream, cursor, created, begun,
                   index>>

\* The atomic block is left normally: the transaction commits.
ScanCommits ==
    /\ pc \in {"poi_scan", "administrative_scan"}
    /\ cursor > Len(stream)
    /\ poi_table' = IF pc = "poi_scan" THEN poi_table \o txn ELSE poi_table
    /\ admin_table' = IF pc = "administrative_scan" THEN admin_table \o txn
                      ELSE admin_table
    /\ txn' = <<>>
    /\ pc' = "done"
    /\ UNCHANGED <<last, filter_config, region_key, stream, cursor, created, begun,
                   index>>

\* Rows an earlier scan of another region left in the tables.
PriorPoiTables ==
    {<<>>,
     <<[osm_id |-> "1", name |-> "Alte Post", region |-> "brandenburg",
        filter_item |-> "0", filter_expression |-> "0", rank |-> MAX_RANK,
        coordinates |-> Some({"p2"}), symbol |-> "cafe"]>>}

PriorAdminTables ==
    {<<>>,
     <<AdministrativeBoundary("1", "Brandenburg", "brandenburg", 4,
                              Some({"p1", "p2"}), None)>>}

InitScan ==
    /\ \E i \in {1, 2} :
         /\ poi_table \in {t \in PriorPoiTables : Len(t) = i - 1}
         /\ admin_table \in {t \in PriorAdminTables : Len(t) = i - 1}
    /\ last = NoCall
    /\ NoScan
    /\ NoIndex

NextScan ==
    \/ BeginPoiScan
    \/ PoiScanStep
    \/ BeginAdministrativeScan
    \/ AdministrativeScanStep
    \/ ScanFails
    \/ ScanCommits

SpecScan == InitScan /\ [][NextScan]_vars

-----------------------------------------------------------------------------
(* PoiIdx.get_nearest_pois                                                  *)

MaxPois == 2

\* What a stored POI is to the query: its region, rank and coordinates.
PoiContents ==
    [region : {"berlin", "brandenburg"}, rank : {4, MAX_RANK},
     geometry : {{"p1"}, {"pm"}, {"p2"}}]

RECURSIVE PoiTableOf(_, _)
\* A Poi table holding the rows of S, with ids from n on.
PoiTableOf(S, n) ==
    IF S = {} THEN <<>>
    ELSE LET c == CHOOSE x \in S : TRUE
         IN  <<[osm_id |-> str(n), name |-> "Cafe Mitte", region |-> c.region,
                filter_item |-> "0", filter_expression |-> "0",
                rank |-> c.rank, coordinates |-> Some(c.geometry),
                symbol |-> "cafe"]>>
             \o PoiTableOf(S \ {c}, n + 1)

\* The distance in metres between a stored geometry and the query point.
Distance(coordinates, origin) ==
    Lowest({IF Position[p] >= Position[origin]
            THEN Position[p] - Position[origin]
            ELSE Position[origin] - Position[p] : p \in coordinates[1]})

\* Rows returned in any order, the LIMIT alone applied.
KnnOrdered_Any(table, g, origin) == TRUE

\* ORDER BY coordinates <-> shape, for the rows g[1], g[2], ... of table.
KnnOrdered(table, g, origin) ==
    \A a, b \in DOMAIN g :
        a < b => Distance(table[g[a]].coordinates, origin)
                   <= Distance(table[g[b]].coordinates, origin)

\* The where clauses: region IN regions, min_rank <= rank <= max_rank,
\* ST_DWithin; a clause is there when its argument is not None.
NearestWhere(row, origin, max_distance, regions, rank_range) ==
    /\ regions # None => row.region \in regions[1]
    /\ rank_range # None =>
          row.rank >= rank_range[1][1] /\ row.rank <= rank_range[1][2]
    /\ max_distance # None =>
          Distance(row.coordinates, origin) <= max_distance[1]

\* The lists the storage may return: the selected rows ordered by distance,
\* rows of one distance in any order, cut after `limit` rows.
get_nearest_pois(table, origin, max_distance, limit, regions, rank_range) ==
    LET rows == {i \in DOMAIN table :
                    NearestWhere(table[i], origin, max_distance, regions, rank_range)}
        n    == Cardinality(rows)
        k    == IF limit < n THEN limit ELSE n
    IN  {[j \in 1..k |-> table[g[j]]] :
            g \in {f \in [1..n -> rows] :
                     /\ \A a, b \in 1..n : a # b => f[a] # f[b]
                     /\ KnnOrdered(table, f, origin)}}

\* The default of the limit argument.
DefaultLimit == 1

\* The arguments the calls are made with; None is an argument left out.
MaxDistances == {None, Some(0), Some(500)}

Limits == {None, Some(0), Some(2)}

RegionLists == {None, Some({}), Some({"berlin"})}

RankRanges == {None, Some(<<4, 4>>), Some(<<5, MAX_RANK>>)}

CallGetNearestPois ==
    \E origin \in Points, max_distance \in MaxDistances, limit \in Limits,
       regions \in RegionLists, rank_range \in RankRanges :
      \E result \in get_nearest_pois(poi_table, origin, max_distance,
                                     IF limit = None THEN DefaultLimit ELSE limit[1],
                                     regions, rank_range) :
        /\ last' = [op |-> "get_nearest_pois", shape |-> origin,
                    max_distance |-> max_distance, limit |-> limit,
                    regions |-> regions, rank_range |-> rank_range,
                    result |-> result]
        /\ UNCHANGED <<storage, scan, index>>

InitNearest ==
    /\ poi_table \in {PoiTableOf(S, 1) : S \in SetsUpTo(PoiContents, MaxPois)}
    /\ admin_table = <<>>
    /\ last = NoCall
    /\ NoScan
    /\ NoIndex

NextNearest == CallGetNearestPois

SpecNearest == InitNearest /\ [][NextNearest]_vars

-----------------------------------------------------------------------------
(* The region catalog and RegionFinder.                                     *)

MaxRows == 2

EuropeFeature ==
    [id |-> "europe", parent |-> None, geometry |-> {"p1", "p2"}]

BerlinFeature ==
    [id |-> "berlin", parent |-> Some("europe"), geometry |-> {"p1"}]

BrandenburgFeature ==
    [id |-> "brandenburg", parent |-> Some("europe"), geometry |-> {"p2"}]

\* The region catalogs the download can give, by the text of the index: the
\* features in document order, each with its id, its parent and the points
\* its geometry covers. The later catalog knows one region more.
Catalogs ==
    [v1 |-> <<EuropeFeature, BerlinFeature>>,
     v2 |-> <<EuropeFeature, BerlinFeature, BrandenburgFeature>>]

\* response.text of the catalog download, or None where the request fails.
DownloadAnswers == {None, Some("v1"), Some("v2")}

json_loads(region_index) == Catalogs[region_index]

\* The features below `parent`, in document order.
Children(geofabrik_data, parent) ==
    SelectSeq([i \in 1..Len(geofabrik_data) |-> i],
              LAMBDA i : geofabrik_data[i].parent = parent)

RECURSIVE Descend(_, _, _)
\* The depth-first descent from the features `nodes`: a feature that covers
\* the key is a result when it has no children and is descended otherwise.
Descend(geofabrik_data, nodes, key) ==
    IF nodes = <<>> THEN <<>>
    ELSE LET n        == Head(nodes)
             children == Children(geofabrik_data, Some(geofabrik_data[n].id))
             here     == IF key \notin geofabrik_data[n].geometry THEN <<>>
                         ELSE IF children = <<>> THEN <<geofabrik_data[n].id>>
                         ELSE Descend(geofabrik_data, children, key)
         IN  here \o Descend(geofabrik_data, Tail(nodes), key)

\* Shape objects: two objects may have one geometry.
ShapeObjects == [object : {1, 2}, geometry : Points]

\* The cache key of a shape: the serialized content of its geometry.
ShapeKey(query) == query.geometry

\* RegionFinder(geofabrik_data): the catalog and an empty lookup cache.
RegionFinder(geofabrik_data, serial) ==
    [geofabrik_data |-> geofabrik_data, cache |-> <<>>, serial |-> serial]

\* RegionFinder.find_regions(shape): the regions, the finder afterwards and
\* whether the region tree was descended.
find_regions(f, query) ==
    LET key == ShapeKey(query)
    IN  IF key \in DOMAIN f.cache
        THEN [regions |-> f.cache[key], finder |-> f, descended |-> FALSE]
        ELSE LET regions == Descend(f.geofabrik_data,
                                    Children(f.geofabrik_data, None), key)
             IN  [regions |-> regions,
                  finder |-> [f EXCEPT !.cache = (key :> regions) @@ f.cache],
                  descended |-> TRUE]

-----------------------------------------------------------------------------
(* The life of a PoiIdx instance.                                           *)

NotReady ==
    "RuntimeError: Region data is not initialized. Please run init_region_data() first."

\* A property that reads the System row and builds a RegionFinder at every
\* access.
PoiIdx_finder_Rebuilt(t, row, f, built) ==
    IF "system" \notin t
    THEN [error |-> Some("ProgrammingError"), finder |-> f, built |-> built]
    ELSE IF row = None \/ row[1].region_index = None
    THEN [error |-> Some(NotReady), finder |-> f, built |-> built]
    ELSE [error |-> None,
          finder |-> Some(RegionFinder(json_loads(row[1].region_index[1]),
                                       built + 1)),
          built |-> built + 1]

\* The property PoiIdx.finder, read when the tables t exist, the System row
\* is `row`, __finder is f and `built` finders have been built: the error
\* raised if any, __finder afterwards and the finders built.
PoiIdx_finder(t, row, f, built) ==
    IF f # None
    THEN [error |-> None, finder |-> f, built |-> built]
    ELSE IF "system" \notin t
    THEN [error |-> Some("ProgrammingError"), finder |-> f, built |-> built]
    ELSE IF row = None \/ row[1].region_index = None
    THEN [error |-> Some(NotReady), finder |-> f, built |-> built]
    ELSE [error |-> None,
          finder |-> Some(RegionFinder(json_loads(row[1].region_index[1]),
                                       built + 1)),
          built |-> built + 1]

Outcome(op, arg, object, error, value, log) ==
    [op |-> op, arg |-> arg, object |-> object, error |-> error,
     value |-> value, log |-> log]

CallFinder ==
    /\ pc = "idle"
    /\ LET a == PoiIdx_finder(tables, system_row, finder, probe.built)
       IN  /\ finder' = a.finder
           /\ probe' = [probe EXCEPT !.built = a.built]
           /\ out' = Outcome("finder", "", 0, a.error,
                             IF a.error = None THEN Some(a.finder[1].serial)
                             ELSE None, <<>>)
    /\ UNCHANGED <<storage, tables, system_row, init_called, last, scan>>

CallFindRegionsByShape ==
    /\ pc = "idle"
    /\ \E query \in ShapeObjects :
         LET a == PoiIdx_finder(tables, system_row, finder, probe.built)
         IN  IF a.error # None
             THEN /\ finder' = a.finder
                  /\ probe' = probe
                  /\ out' = Outcome("find_regions_by_shape", query.geometry,
                                    query.object, a.error, None, <<>>)
             ELSE LET r == find_regions(a.finder[1], query)
                  IN  /\ finder' = Some(r.finder)
                      /\ probe' = [built |-> a.built,
                                   descents |->
                                     [probe.descents EXCEPT ![ShapeKey(query)] =
                                        IF r.descended THEN @ + 1 ELSE @]]
                      /\ out' = Outcome("find_regions_by_shape", query.geometry,
                                        query.object, None, Some(r.regions),
                                        IF r.descended THEN <<"descend">>
                                        ELSE <<>>)
    /\ UNCHANGED <<storage, tables, system_row, init_called, last, scan>>

\* Poi.select().where(Poi.region == region_key).exists()
has_region_data(table, region) ==
    \E i \in DOMAIN table : table[i].region = region

\* The region keys the calls are made with.
RegionKeys == {"berlin", "brandenburg"}

CallHasRegionData ==
    /\ pc = "idle"
    /\ \E region \in RegionKeys :
         out' = IF "poi" \notin tables
                THEN Outcome("has_region_data", region, 0,
                             Some("ProgrammingError"), None, <<>>)
                ELSE Outcome("has_region_data", region, 0, None,
                             Some(has_region_data(poi_table, region)), <<>>)
    /\ UNCHANGED <<storage, tables, system_row, finder, probe, init_called,
                   last, scan>>

\* db.create_tables(TABLES): the tables that are missing are created.
CallInitSchema ==
    /\ pc = "idle"
    /\ tables' = TABLES
    /\ out' = Outcome("init_schema", "", 0, None, None, <<"create_tables">>)
    /\ UNCHANGED <<storage, system_row, finder, probe, init_called, last, scan>>

\* db.drop_tables(TABLES): the tables go, and their rows with them.
CallDropSchema ==
    /\ pc = "idle"
    /\ tables' = {}
    /\ poi_table' = <<>>
    /\ admin_table' = <<>>
    /\ system_row' = None
    /\ out' = Outcome("drop_schema", "", 0, None, None, <<"drop_tables">>)
    /\ UNCHANGED <<finder, probe, init_called, last, scan>>

CallRecreateSchema ==
    /\ pc = "idle"
    /\ tables' = TABLES
    /\ poi_table' = <<>>
    /\ admin_table' = <<>>
    /\ system_row' = None
    /\ out' = Outcome("recreate_schema", "", 0, None, None,
                      <<"drop_tables", "create_tables">>)
    /\ UNCHANGED <<finder, probe, init_called, last, scan>>

\* init_if_new: nothing when every table exists; otherwise recreate_schema
\* and init_region_data, whose download may fail behind System.create.
CallInitIfNew ==
    /\ pc = "idle"
    /\ IF TABLES \subseteq tables
       THEN /\ out' = Outcome("init_if_new", "", 0, None, None, <<>>)
            /\ UNCHANGED <<storage, tables, system_row>>
       ELSE \E answer \in DownloadAnswers :
              /\ tables' = TABLES
              /\ poi_table' = <<>>
              /\ admin_table' = <<>>
              /\ system_row' = Some([region_index |-> answer])
              /\ out' = Outcome("init_if_new", "", 0,
                                IF answer = None THEN Some("RequestException")
                                ELSE None,
                                None,
                                <<"drop_tables", "create_tables", "System.create",
                                  "download_region_data">>)
    /\ UNCHANGED <<finder, probe, init_called, last, scan>>

\* init_region_data called by itself. Whether System.create of a second row
\* raises depends on the System model: both outcomes are taken.
CallInitRegionData ==
    /\ pc = "idle"
    /\ IF "system" \notin tables
       THEN /\ out' = Outcome("init_region_data", "", 0,
                              Some("ProgrammingError"), None, <<>>)
            /\ UNCHANGED system_row
       ELSE \E answer \in DownloadAnswers, unique \in BOOLEAN :
              IF system_row # None /\ unique
              THEN /\ out' = Outcome("init_region_data", "", 0,
                                     Some("IntegrityError"), None, <<>>)
                   /\ UNCHANGED system_row
              ELSE /\ system_row' =
                        IF answer # None THEN Some([region_index |-> answer])
                        ELSE IF system_row = None
                             THEN Some([region_index |-> None])
                             ELSE system_row
                   /\ out' = Outcome("init_region_data", "", 0,
                                     IF answer = None
                                     THEN Some("RequestException") ELSE None,
                                     None,
                                     <<"System.create", "download_region_data">>)
    /\ UNCHANGED <<storage, tables, finder, probe, init_called, last, scan>>

\* geofabrik.download_region_data(): the text is fetched, then stored in
\* the System row, which get_or_create makes where there is none.
CallDownloadRegionData ==
    /\ pc = "idle"
    /\ \E answer \in DownloadAnswers :
         IF answer = None
         THEN /\ out' = Outcome("download_region_data", "", 0,
                                Some("RequestException"), None, <<>>)
              /\ UNCHANGED system_row
         ELSE IF "system" \notin tables
         THEN /\ out' = Outcome("download_region_data", "", 0,
                                Some("ProgrammingError"), None, <<>>)
              /\ UNCHANGED system_row
         ELSE /\ system_row' = Some([region_index |-> answer])
              /\ out' = Outcome("download_region_data", "", 0, None, None,
                                <<"download_region_data">>)
    /\ UNCHANGED <<storage, tables, finder, probe, init_called, last, scan>>

-----------------------------------------------------------------------------
(* PoiIdx.initialize_pois_for_region                                        *)

\* The extract files a region's download can give: a cafe in front of a
\* boundary, a boundary whose admin_level is no number, and an empty file.
CafeNode ==
    Entity([type_str |-> "n", geo |-> TRUE],
           Tag("name", Some("Cafe Mitte")) @@ Tag("amenity", Some("cafe")))

MitteBoundary ==
    Entity([type_str |-> "w", geo |-> TRUE],
           Tag("boundary", Some("administrative")) @@ Tag("name", Some("Mitte"))
             @@ Tag("admin_level", Some(<<"1", "0">>)))

BrokenBoundary ==
    Entity([type_str |-> "w", geo |-> TRUE],
           Tag("boundary", Some("administrative")) @@ Tag("name", Some("Mitte"))
             @@ Tag("admin_level", Some(<<"x">>)))

RegionFiles == {<<CafeNode, MitteBoundary>>, <<BrokenBoundary>>, <<>>}

\* The rule table of poi_filter_config.yaml.
poi_filter_config ==
    << [symbol |-> "cafe", filters |-> << [amenity |-> True] >>],
       [symbol |-> "shop", filters |-> << [shop |-> Equals("yes")] >> ] >>

\* A storage that keeps one row per osm_id: the new row replaces the old.
PoiCreate_Unique(table, row) ==
    IF \E i \in DOMAIN table : table[i].osm_id = row.osm_id
    THEN [i \in DOMAIN table |->
            IF table[i].osm_id = row.osm_id THEN row ELSE table[i]]
    ELSE Append(table, row)

\* Poi.create: a row is added; no column but the id is unique.
PoiCreate(table, row) == Append(table, row)

RECURSIVE PoiCreateAll(_, _)
PoiCreateAll(table, rows) ==
    IF rows = <<>> THEN table
    ELSE PoiCreateAll(PoiCreate(table, Head(rows)), Tail(rows))

RECURSIVE PoiScanRows(_, _, _, _)
\* The rows poi_scan creates for the entities of file from position i on.
PoiScanRows(config, file, i, region) ==
    IF i > Len(file) THEN <<>>
    ELSE LET row == IF PoiProcessor(config, file[i])
                    THEN PoiScanCreate(config, file[i], i, region)
                    ELSE None
         IN  (IF row = None THEN <<>> ELSE <<row[1]>>)
             \o PoiScanRows(config, file, i + 1, region)

RECURSIVE AdministrativeScanRows(_, _, _)
\* The rows administrative_scan creates for the entities of file from
\* position i on, or None where an insert raises.
AdministrativeScanRows(file, i, region) ==
    IF i > Len(file) THEN Some(<<>>)
    ELSE LET row  == IF AdministrativeProcessor(file[i])
                     THEN AdministrativeScanCreate(file[i], i, region)
                     ELSE None
             rest == AdministrativeScanRows(file, i + 1, region)
         IN  IF row = None THEN rest
             ELSE IF int(row[1].admin_level) = None \/ rest = None THEN None
             ELSE Some(<<[row[1] EXCEPT !.admin_level = int(row[1].admin_level)[1]]>>
                       \o rest[1])

\* next(r for r in features if r["properties"]["id"] == region_key)
RegionKnown(geofabrik_data, region) ==
    \E i \in DOMAIN geofabrik_data : geofabrik_data[i].id = region

\* initialize_pois_for_region up to the end of poi_scan: the finder is read,
\* the region looked up, the file fetched and the POIs scanned and committed.
CallInitializePoisForRegion ==
    /\ pc = "idle"
    /\ \E region \in RegionKeys, download \in {None} \cup {Some(f) : f \in RegionFiles},
          fails \in BOOLEAN :
         LET a    == PoiIdx_finder(tables, system_row, finder, probe.built)
             Raise(error, log) ==
                 /\ out' = Outcome("initialize_pois_for_region", region, 0,
                                   Some(error), None, log)
                 /\ UNCHANGED <<storage, pc, region_key, stream, begun>>
         IN  /\ finder' = a.finder
             /\ probe' = [probe EXCEPT !.built = a.built]
             /\ IF a.error # None THEN Raise(a.error[1], <<>>)
                ELSE IF ~RegionKnown(a.finder[1].geofabrik_data, region)
                THEN Raise("ValueError", <<>>)
                ELSE IF download = None
                THEN Raise("RequestException", <<"download">>)
                ELSE LET rows == PoiScanRows(poi_filter_config, download[1], 1, region)
                     IN  IF fails \/ (rows # <<>> /\ "poi" \notin tables)
                         THEN Raise("ScanError", <<"download", "poi_scan">>)
                         ELSE /\ Len(poi_table) + Len(rows) <= MaxRows
                              /\ Len(admin_table) < MaxRows
                              /\ poi_table' = PoiCreateAll(poi_table, rows)
                              /\ admin_table' = admin_table
                              /\ pc' = "administrative_scan"
                              /\ region_key' = region
                              /\ stream' = download[1]
                              /\ begun' = [poi_table |-> poi_table,
                                           admin_table |-> admin_table]
                              /\ out' = Outcome("initialize_pois_for_region",
                                                region, 0, None, None,
                                                <<"download", "poi_scan">>)
    /\ UNCHANGED <<tables, system_row, init_called, last, filter_config, cursor,
                   txn, created>>

\* A failure of administrative_scan that also takes the POIs back.
AdministrativeScanFailed_UndoPois ==
    /\ poi_table' = begun.poi_table
    /\ admin_table' = admin_table

\* administrative_scan raises: its own transaction is rolled back, and
\* nothing else.
AdministrativeScanFailed ==
    /\ poi_table' = poi_table
    /\ admin_table' = admin_table

\* initialize_pois_for_region from the end of poi_scan on: the boundaries of
\* the same file are scanned and committed, and the call returns or raises.
InitializePoisAdministrativeScan ==
    /\ pc = "administrative_scan"
    /\ \E fails \in BOOLEAN :
         LET rows == AdministrativeScanRows(stream, 1, region_key)
         IN  IF \/ fails
                \/ rows = None
                \/ (rows[1] # <<>> /\ "administrativeboundary" \notin tables)
             THEN /\ AdministrativeScanFailed
                  /\ out' = Outcome("initialize_pois_for_region", region_key, 0,
                                    Some("ScanError"), None,
                                    <<"download", "poi_scan", "administrative_scan">>)
             ELSE /\ admin_table' = admin_table \o rows[1]
                  /\ poi_table' = poi_table
                  /\ out' = Outcome("initialize_pois_for_region", region_key, 0,
                                    None, None,
                                    <<"download", "poi_scan", "administrative_scan">>)
    /\ pc' = "idle"
    /\ region_key' = ""
    /\ stream' = <<>>
    /\ begun' = [poi_table |-> <<>>, admin_table |-> <<>>]
    /\ UNCHANGED <<tables, system_row, finder, probe, init_called, last,
                   filter_config, cursor, txn, created>>

-----------------------------------------------------------------------------
(* The module-level functions of the package.                               *)

\* The names the class PoiIdx defines.
ClassAttributes ==
    {"TABLES", "__init__", "close", "init_schema", "drop_schema",
     "recreate_schema", "init_if_new", "init_region_data", "finder",
     "find_regions_by_shape", "has_region_data", "initialize_pois_for_region",
     "get_nearest_pois", "get_administrative_hierarchy",
     "get_administrative_hierarchy_string"}

NotInitialized == "RuntimeError: PoiIdx not initialized. Call poiidx.init() first."

\* PoiIdx.<name>() on the class: a name the class does not define raises
\* AttributeError, a method it defines is called without an instance.
ClassCall(name) ==
    IF name \in ClassAttributes THEN "TypeError" ELSE "AttributeError"

\* assert_initialized(): a RuntimeError of PoiIdx.assert_initialized() is
\* raised again as "not initialized"; any other error passes through.
assert_initialized ==
    LET error == ClassCall("assert_initialized")
    IN  IF error = "RuntimeError" THEN NotInitialized ELSE error

ModuleOps ==
    {"close", "recreate_schema", "drop_schema", "get_nearest_pois",
     "get_administrative_hierarchy", "get_administrative_hierarchy_string"}

\* close(), recreate_schema(), drop_schema(), get_nearest_pois(...),
\* get_administrative_hierarchy(...), get_administrative_hierarchy_string(...)
ModuleCall ==
    /\ pc = "idle"
    /\ \E op \in ModuleOps :
         out' = Outcome("poiidx." \o op, "", 0, Some(assert_initialized), None, <<>>)
    /\ UNCHANGED <<storage, tables, system_row, finder, probe, init_called,
                   last, scan>>

\* init(recreate, **kwargs): PoiIdx.connect(**kwargs) comes first.
ModuleInit ==
    /\ pc = "idle"
    /\ \E recreate \in BOOLEAN :
         out' = Outcome("poiidx.init", IF recreate THEN "recreate" ELSE "", 0,
                        Some(ClassCall("connect")), None, <<>>)
    /\ init_called' = TRUE
    /\ UNCHANGED <<storage, tables, system_row, finder, probe, last, scan>>

\* A PoiIdx instance connected to a fresh database, to one whose Poi table
\* was dropped, or to one initialized earlier.
InitIndex ==
    /\ \/ /\ tables = {}
          /\ poi_table = <<>>
          /\ admin_table = <<>>
          /\ system_row = None
       \/ /\ tables = TABLES \ {"poi"}
          /\ poi_table = <<>>
          /\ admin_table \in {t \in PriorAdminTables : Len(t) = 1}
          /\ system_row = Some([region_index |-> Some("v1")])
       \/ /\ tables = TABLES
          /\ poi_table \in PriorPoiTables
          /\ admin_table = <<>>
          /\ system_row = Some([region_index |-> Some("v1")])
    /\ finder = None
    /\ probe = [built |-> 0, descents |-> [k \in {"p1", "p2"} |-> 0]]
    /\ init_called = FALSE
    /\ out = NoOut
    /\ last = NoCall
    /\ pc = "idle"
    /\ filter_config = <<>>
    /\ region_key = ""
    /\ stream = <<>>
    /\ cursor = 1
    /\ txn = <<>>
    /\ created = 0
    /\ begun = [poi_table |-> <<>>, admin_table |-> <<>>]

NextIndex ==
    \/ CallFinder
    \/ CallFindRegionsByShape
    \/ CallHasRegionData
    \/ CallInitSchema
    \/ CallDropSchema
    \/ CallRecreateSchema
    \/ CallInitIfNew
    \/ CallInitRegionData
    \/ CallDownloadRegionData
    \/ CallInitializePoisForRegion
    \/ InitializePoisAdministrativeScan
    \/ ModuleCall
    \/ ModuleInit

SpecIndex == InitIndex /\ [][NextIndex]_vars

-----------------------------------------------------------------------------
(* Properties of the hierarchy calls.                                       *)

Called == last.op # "none"

\* An entry that could stand for the country lookup: it carries a wikidata
\* id and its level is within the plausibility threshold.
Qualifies(admin) ==
    admin.wikidata_id # None /\ admin.admin_level <= CountryPlausibleLevel

Qualifying(hierarchy) == {i \in DOMAIN hierarchy : Qualifies(hierarchy[i])}

NoCountryStored(hierarchy) ==
    \A i \in DOMAIN hierarchy : hierarchy[i].admin_level # 2

\* C1: the list returned by get_administrative_hierarchy is non-increasing in
\* admin_level from first to last entry, the synthetic country entry included.
C1_NonIncreasingLevels ==
    Called =>
        \A i, j \in DOMAIN last.hierarchy :
            i < j => last.hierarchy[i].admin_level >= last.hierarchy[j].admin_level

C3_SyntheticCountryAppended ==
    ( /\ Called
      /\ NoCountryStored(last.query)
      /\ Qualifying(last.query) # {}
      /\ last.answer # None )
    => /\ Len(last.hierarchy) = Len(last.query) + 1
       /\ SubSeq(last.hierarchy, 1, Len(last.query)) = last.query
       /\ LET country_admin == last.hierarchy[Len(last.hierarchy)]
          IN  /\ country_admin.admin_level = 2
              /\ country_admin.name = last.answer[1]
              /\ country_admin.coordinates = None
              /\ country_admin.wikidata_id = None
              /\ country_admin.osm_id = "0"
              /\ \A i \in DOMAIN last.query :
                    last.query[i].osm_id # country_admin.osm_id

\* A synthetic Germany was appended behind two stored entries.
C3_Witness ==
    /\ Called
    /\ NoCountryStored(last.query)
    /\ Len(last.query) = 2
    /\ Qualifying(last.query) # {}
    /\ last.answer = Some("Germany")
    /\ Len(last.hierarchy) = 3
    /\ last.hierarchy[3].name = "Germany"

StrictlyOrdered(hierarchy) ==
    \A i, j \in DOMAIN hierarchy :
        i < j => hierarchy[i].admin_level > hierarchy[j].admin_level

\* C4 as stated: the entry passed to the lookup is the first qualifying entry
\* scanning the hierarchy from most local to most global (stated for
\* hierarchies of distinct levels, where that order is the list's order).
C4_FirstQualifyingFromMostLocal ==
    (Called /\ NoCountryStored(last.query) /\ StrictlyOrdered(last.query)) =>
        LET q == Qualifying(last.query)
        IN  last.argument =
              IF q = {} THEN None
              ELSE Some(last.query[CHOOSE i \in q : \A j \in q : i <= j])

\* C4 as amended: the entry passed to the lookup is the first qualifying
\* entry scanning from most global to most local, that is the last qualifying
\* entry of the list; an entry with an id beyond the threshold hides none.
C4_FirstQualifyingFromMostGlobal ==
    (Called /\ NoCountryStored(last.query)) =>
        LET q == Qualifying(last.query)
        IN  last.argument =
              IF q = {} THEN None
              ELSE Some(last.query[CHOOSE i \in q : \A j \in q : j <= i])

\* An entry with an id beyond the threshold came before a qualifying one,
\* and the qualifying one was passed to the lookup.
C4_Witness ==
    /\ Called
    /\ NoCountryStored(last.query)
    /\ Len(last.query) = 2
    /\ last.query[1].wikidata_id # None
    /\ last.query[1].admin_level > CountryPlausibleLevel
    /\ Qualifies(last.query[2])
    /\ last.argument = Some(last.query[2])

\* C5: when the lookup answers no name, or no covering boundary qualifies as
\* a candidate, the returned list is exactly the storage result.
C5_UnchangedWithoutName ==
    (Called /\ (last.answer = None \/ Qualifying(last.query) = {}))
    => last.hierarchy = last.query

\* The lookup was made for a qualifying entry and answered no name.
C5_Witness ==
    /\ Called
    /\ last.argument # None
    /\ last.answer = None
    /\ last.query # <<>>
    /\ last.hierarchy = last.query

\* The names of a hierarchy with every run of one name reduced to its first
\* entry.
RunHeads(hierarchy) ==
    LET keep == {i \in DOMAIN hierarchy :
                    i = 1 \/ hierarchy[i].name # hierarchy[i - 1].name}
        RECURSIVE From(_)
        From(i) ==
            IF i > Len(hierarchy) THEN <<>>
            ELSE IF i \in keep THEN <<hierarchy[i].name>> \o From(i + 1)
                 ELSE From(i + 1)
    IN  From(1)

RECURSIVE Joined(_)
\* The names separated by ", ", built from the last name backwards.
Joined(names) ==
    IF names = <<>> THEN ""
    ELSE IF Len(names) = 1 THEN names[1]
         ELSE Joined(SubSeq(names, 1, Len(names) - 1)) \o ", " \o names[Len(names)]

\* C6: get_administrative_hierarchy_string returns the names of the hierarchy
\* in order, every run of consecutive entries of one name collapsed to one
\* occurrence, joined with ", "; the empty hierarchy gives the empty string.
C6_StringIsCollapsedJoin ==
    last.op = "get_administrative_hierarchy_string" =>
        /\ last.string = Joined(RunHeads(last.hierarchy))
        /\ last.hierarchy = <<>> => last.string = ""
        /\ ( /\ Len(last.hierarchy) = 3
             /\ last.hierarchy[1].name = "Mitte"
             /\ last.hierarchy[2].name = "Berlin"
             /\ last.hierarchy[3].name = "Germany" )
           => last.string = "Mitte, Berlin, Germany"

\* A name repeated behind another one was kept: Germany, Mitte, Germany.
C6_Witness ==
    /\ last.op = "get_administrative_hierarchy_string"
    /\ Len(last.hierarchy) = 3
    /\ last.hierarchy[1].name = last.hierarchy[3].name
    /\ last.hierarchy[1].name # last.hierarchy[2].name
    /\ last.string = "Germany, Mitte, Germany"

\* The synthetic country entries of a list: the placeholder id, no geometry.
Synthetic(hierarchy) ==
    {i \in DOMAIN hierarchy :
        hierarchy[i].osm_id = "0" /\ hierarchy[i].coordinates = None}

\* C17: when the storage result holds an admin_level-2 entry, the list is
\* returned as it is: no lookup is made and no synthetic entry is appended;
\* no returned list holds both a stored country and a synthetic one.
C17_StoredCountryReturnedAsIs ==
    Called =>
        /\ ~NoCountryStored(last.query) =>
              /\ last.argument = None
              /\ last.hierarchy = last.query
              /\ Synthetic(last.hierarchy) = {}
        /\ ~( /\ Synthetic(last.hierarchy) # {}
              /\ \E i \in DOMAIN last.hierarchy \ Synthetic(last.hierarchy) :
                    last.hierarchy[i].admin_level = 2 )

\* A stored country came with a qualifying entry and a lookup that would
\* have answered a name, and the list was returned as stored.
C17_Witness ==
    /\ Called
    /\ ~NoCountryStored(last.query)
    /\ Qualifying(last.query) # {}
    /\ last.answer # None
    /\ Len(last.query) = 2
    /\ last.hierarchy = last.query

-----------------------------------------------------------------------------
(* Properties of the scans.                                                 *)

\* The rows the scan of this behaviour has created: those of its open
\* transaction and those it committed.
NewPoiRows ==
    SubSeq(poi_table, Len(begun.poi_table) + 1, Len(poi_table))
    \o (IF pc = "poi_scan" THEN txn ELSE <<>>)

NewAdminRows ==
    SubSeq(admin_table, Len(begun.admin_table) + 1, Len(admin_table))
    \o (IF pc = "administrative_scan" THEN txn ELSE <<>>)

\* The positions in the stream of the entities a row's osm_id names.
EntitiesOf(row) == {id \in DOMAIN stream : str(id) = row.osm_id}

\* A filter expression matches as specified: a "present" predicate asks for
\* the key only, an "equals" predicate for the key with exactly that value.
MatchesAsSpecified(filter_expression, tags) ==
    \A k \in DOMAIN filter_expression :
        /\ k \in DOMAIN tags
        /\ filter_expression[k].kind = "str" => tags[k] = filter_expression[k].value

MatchingPairs(config, tags) ==
    {p \in UNION {{<<i, j>> : j \in DOMAIN config[i].filters} : i \in DOMAIN config} :
        MatchesAsSpecified(config[p[1]].filters[p[2]], tags)}

Earlier(p, q) == p[1] < q[1] \/ (p[1] = q[1] /\ p[2] <= q[2])

\* C7: every POI stored by poi_scan carries the indices and the symbol of
\* the first matching (item, expression) pair in table order.
C7_FirstMatchingRuleStored ==
    \A r \in DOMAIN NewPoiRows :
        \A id \in EntitiesOf(NewPoiRows[r]) :
            LET pairs == MatchingPairs(filter_config, stream[id].tags)
            IN  \E p \in pairs :
                  /\ \A q \in pairs : Earlier(p, q)
                  /\ NewPoiRows[r].filter_item = str(p[1] - 1)
                  /\ NewPoiRows[r].filter_expression = str(p[2] - 1)
                  /\ NewPoiRows[r].symbol = filter_config[p[1]].symbol

RECURSIVE Characters(_)
\* The decimal digits of n, as characters.
Characters(n) ==
    IF n < 10 THEN <<Digit[n + 1]>>
    ELSE Characters(n \div 10) \o <<Digit[(n % 10) + 1]>>

\* C8: an entity without a name tag gives no POI and no boundary; every row
\* created has the name of its entity's name tag, and every boundary the
\* admin_level of its entity's admin_level tag.
C8_NameRequired ==
    /\ \A id \in 1..(cursor - 1) :
          "name" \notin DOMAIN stream[id].tags =>
              /\ \A r \in DOMAIN NewPoiRows : NewPoiRows[r].osm_id # str(id)
              /\ \A r \in DOMAIN NewAdminRows : NewAdminRows[r].osm_id # str(id)
    /\ \A r \in DOMAIN NewPoiRows :
          \E id \in EntitiesOf(NewPoiRows[r]) :
              /\ "name" \in DOMAIN stream[id].tags
              /\ NewPoiRows[r].name = stream[id].tags["name"]
    /\ \A r \in DOMAIN NewAdminRows :
          \E id \in EntitiesOf(NewAdminRows[r]) :
              /\ "name" \in DOMAIN stream[id].tags
              /\ NewAdminRows[r].name = stream[id].tags["name"]
              /\ "admin_level" \in DOMAIN stream[id].tags
              /\ Characters(NewAdminRows[r].admin_level)
                   = stream[id].tags["admin_level"]

\* A committed administrative scan met a nameless administrative boundary
\* with an admin_level and a geometry, and stored the named one behind it.
C8_Witness ==
    /\ pc = "done"
    /\ Len(stream) = 2
    /\ "name" \notin DOMAIN stream[1].tags
    /\ stream[1].geo
    /\ TagsGet(stream[1].tags, "boundary") = Some("administrative")
    /\ "admin_level" \in DOMAIN stream[1].tags
    /\ Len(NewAdminRows) = 1
    /\ NewAdminRows[1].osm_id = "2"
    /\ NewAdminRows[1].admin_level = 10

\* C9: a filter expression matches an entity iff every (key, predicate) pair
\* matches its tags, "present" asking only for the key, whatever its value.
C9_ExpressionMatchesAsSpecified ==
    pc = "poi_scan" =>
        \A id \in 1..(cursor - 1) :
            \A i \in DOMAIN filter_config :
                \A j \in DOMAIN filter_config[i].filters :
                    ExpressionMatches(filter_config[i].filters[j], stream[id].tags)
                    <=> MatchesAsSpecified(filter_config[i].filters[j],
                                           stream[id].tags)

\* C10: a scan is all or nothing. While it runs and after it failed, both
\* tables are what they were when it began; after it committed, the table it
\* writes is the table as it began followed by every row the scan created.
C10_AllOrNothing ==
    /\ pc \in {"poi_scan", "administrative_scan", "failed"} =>
          /\ poi_table = begun.poi_table
          /\ admin_table = begun.admin_table
    /\ pc = "done" =>
          /\ SubSeq(poi_table, 1, Len(begun.poi_table)) = begun.poi_table
          /\ SubSeq(admin_table, 1, Len(begun.admin_table)) = begun.admin_table
          /\ Len(poi_table) + Len(admin_table)
               = Len(begun.poi_table) + Len(begun.admin_table) + created

\* A scan failed behind an entity it had created a row for, with rows of an
\* earlier scan in the tables.
C10_Witness ==
    /\ pc = "failed"
    /\ created >= 1
    /\ cursor = 2
    /\ Len(stream) = 2
    /\ begun.poi_table # <<>>
    /\ poi_table = begun.poi_table

\* C11: the coordinates stored for a matched entity that is no node and has a
\* geometry are the centroid computed in the local plane and brought back, a
\* single point and not the entity's own geometry; those stored for a node
\* are its own point.
C11_CentroidStored ==
    \A r \in DOMAIN NewPoiRows :
        \A id \in EntitiesOf(NewPoiRows[r]) :
            LET obj == stream[id]
            IN  IF obj.type_str = "n"
                THEN NewPoiRows[r].coordinates = Some(shape(obj))
                ELSE /\ NewPoiRows[r].coordinates = Some(PoiScanCentroid(obj))
                     /\ Cardinality(NewPoiRows[r].coordinates[1]) = 1

\* C12: every stored POI has an integer rank: MAX_RANK where calculate_rank
\* gives None and the value it gives otherwise, calculate_rank being called
\* with the place tag alone for a node and with the bounding radius and the
\* place tag for another object.
C12_RankStored ==
    \A r \in DOMAIN NewPoiRows :
        /\ NewPoiRows[r].rank \in 0..MAX_RANK
        /\ \A id \in EntitiesOf(NewPoiRows[r]) :
              LET obj      == stream[id]
                  place    == TagsGet(obj.tags, "place")
                  radius   == minimum_bounding_radius(to_local(shape(obj)))
                  returned == IF obj.type_str = "n"
                              THEN calculate_rank(None, place)
                              ELSE calculate_rank(Some(radius), place)
              IN  /\ returned = None => NewPoiRows[r].rank = MAX_RANK
                  /\ returned # None => NewPoiRows[r].rank = returned[1]
                  /\ (obj.type_str = "n" /\ place = None)
                        => NewPoiRows[r].rank = MAX_RANK

\* A committed scan stored an unranked node with MAX_RANK in front of an
\* area ranked by its place tag.
C12_Witness ==
    /\ pc = "done"
    /\ Len(NewPoiRows) = 2
    /\ stream[1].type_str = "n"
    /\ "place" \notin DOMAIN stream[1].tags
    /\ NewPoiRows[1].rank = MAX_RANK
    /\ stream[2].type_str = "w"
    /\ "place" \in DOMAIN stream[2].tags
    /\ NewPoiRows[2].rank = 4

-----------------------------------------------------------------------------
(* Properties of get_nearest_pois.                                          *)

\* The stored rows that satisfy the filters of the last call.
Satisfying ==
    {i \in DOMAIN poi_table :
        /\ last.regions # None => poi_table[i].region \in last.regions[1]
        /\ last.rank_range # None =>
              /\ last.rank_range[1][1] <= poi_table[i].rank
              /\ poi_table[i].rank <= last.rank_range[1][2]
        /\ last.max_distance # None =>
              Distance(poi_table[i].coordinates, last.shape) <= last.max_distance[1]}

\* C15: get_nearest_pois returns at most `limit` POIs (1 when the limit is
\* left out), in order of non-decreasing distance, each a stored POI that
\* satisfies the filters given (none for an empty region list); no stored POI
\* that satisfies the filters and is left out is closer than a returned one.
C15_NearestPois ==
    last.op = "get_nearest_pois" =>
        LET result == last.result
            limit  == IF last.limit = None THEN 1 ELSE last.limit[1]
        IN  /\ Len(result) <= limit
            /\ \A a, b \in DOMAIN result :
                  a < b => Distance(result[a].coordinates, last.shape)
                             <= Distance(result[b].coordinates, last.shape)
            /\ \A a \in DOMAIN result :
                  \E i \in Satisfying : poi_table[i] = result[a]
            /\ \A a, b \in DOMAIN result : a # b => result[a] # result[b]
            /\ last.regions = Some({}) => result = <<>>
            /\ \A i \in Satisfying :
                  (\A a \in DOMAIN result : result[a] # poi_table[i]) =>
                      \A a \in DOMAIN result :
                          Distance(poi_table[i].coordinates, last.shape)
                            >= Distance(result[a].coordinates, last.shape)

\* A call with the limit left out returned the nearer of two POIs that
\* satisfy a region and a rank filter, the first stored being the farther.
C15_Witness ==
    /\ last.op = "get_nearest_pois"
    /\ last.limit = None
    /\ last.regions # None
    /\ last.rank_range # None
    /\ Cardinality(Satisfying) = 2
    /\ Len(last.result) = 1
    /\ last.result[1] = poi_table[2]
    /\ Distance(poi_table[2].coordinates, last.shape)
         < Distance(poi_table[1].coordinates, last.shape)

-----------------------------------------------------------------------------
(* Properties of the PoiIdx instance and of the module-level functions.     *)

\* C13: a module-level close, recreate_schema, drop_schema, get_nearest_pois,
\* get_administrative_hierarchy or get_administrative_hierarchy_string called
\* before init fails with RuntimeError("PoiIdx not initialized. Call
\* poiidx.init() first.") and performs no storage or catalog action.
C13_NotInitializedError ==
    (out.op \in {"poiidx." \o op : op \in ModuleOps} /\ ~init_called) =>
        /\ out.error = Some(NotInitialized)
        /\ out.log = <<>>

\* The regions a descent of the finder's catalog gives for a shape key.
Descended(key) ==
    Descend(finder[1].geofabrik_data, Children(finder[1].geofabrik_data, None), key)

\* C14: find_regions_by_shape called again with a shape of equal geometry
\* returns the same ordered regions from the lookup cache, without a second
\* descent of the region tree; a cache entry, once made, stays as it is.
C14_SecondLookupFromCache ==
    /\ \A key \in Points :
          /\ probe.descents[key] <= 1
          /\ probe.descents[key] = 1 =>
                /\ finder # None
                /\ key \in DOMAIN finder[1].cache
    /\ finder # None =>
          \A key \in DOMAIN finder[1].cache :
              /\ probe.descents[key] = 1
              /\ finder[1].cache[key] = Descended(key)
    /\ (out.op = "find_regions_by_shape" /\ out.error = None) =>
          /\ out.value = Some(finder[1].cache[out.arg])
          /\ out.log \in {<<>>, <<"descend">>}

\* A second shape object with the geometry of an earlier one was answered
\* from the cache, with the region the one descent had found.
C14_Witness ==
    /\ out.op = "find_regions_by_shape"
    /\ out.error = None
    /\ out.object = 2
    /\ out.log = <<>>
    /\ probe.descents[out.arg] = 1
    /\ out.value = Some(<<"berlin">>)

\* The entities of the file whose scan has just committed that give a POI.
MatchingEntities ==
    {id \in DOMAIN stream :
        /\ PoiProcessor(poi_filter_config, stream[id])
        /\ PoiScanCreate(poi_filter_config, stream[id], id, region_key) # None}

\* The rows of a Poi table with an osm_id, and those of them of the region
\* being scanned.
WithOsmId(table, id) == {i \in DOMAIN table : table[i].osm_id = str(id)}

WithOsmIdInRegion(table, id) ==
    {i \in WithOsmId(table, id) : table[i].region = region_key}

\* C16: no uniqueness is enforced on osm_id. When the poi_scan of
\* initialize_pois_for_region has committed, every row stored before is still
\* there, and every matching entity has one row more than before, whether or
\* not rows of its osm_id, of this region or another, were stored already.
C16_NoUniqueOsmId ==
    pc = "administrative_scan" =>
        /\ SubSeq(poi_table, 1, Len(begun.poi_table)) = begun.poi_table
        /\ Len(poi_table) = Len(begun.poi_table) + Cardinality(MatchingEntities)
        /\ \A id \in MatchingEntities :
              /\ Cardinality(WithOsmId(poi_table, id))
                   = Cardinality(WithOsmId(begun.poi_table, id)) + 1
              /\ Cardinality(WithOsmIdInRegion(poi_table, id))
                   = Cardinality(WithOsmIdInRegion(begun.poi_table, id)) + 1

\* The second scan of one region's file has committed: the entity has two
\* rows of that region, equal but for their place in the table.
C16_Witness ==
    /\ pc = "administrative_scan"
    /\ Len(begun.poi_table) = 1
    /\ Len(poi_table) = 2
    /\ poi_table[1] = poi_table[2]
    /\ poi_table[2].region = region_key

\* C18: init_if_new changes nothing when every table of TABLES exists, and
\* otherwise drops and recreates all tables, rows included, and downloads
\* the region catalog; init(recreate=True) drops the schema and then does
\* what init_if_new does.
C18_InitIfNewAndInit ==
    [][ /\ out'.op = "init_if_new" =>
              IF TABLES \subseteq tables
              THEN /\ UNCHANGED <<storage, tables, system_row>>
                   /\ out'.log = <<>>
              ELSE /\ tables' = TABLES
                   /\ poi_table' = <<>>
                   /\ admin_table' = <<>>
                   /\ out'.log = <<"drop_tables", "create_tables", "System.create",
                                   "download_region_data">>
        /\ (out'.op = "poiidx.init" /\ out'.arg = "recreate") =>
              /\ out'.log # <<>>
              /\ out'.log[1] = "drop_tables"
              /\ tables' = TABLES
              /\ poi_table' = <<>>
              /\ admin_table' = <<>> ]_vars

AdministrativeScanLog == <<"download", "poi_scan", "administrative_scan">>

\* C19 as stated: when administrative_scan fails after poi_scan committed,
\* has_region_data(region) is True and no boundary of the call is stored; an
\* unknown region key raises ValueError before any download or write.
C19_RegionHasDataAfterFailure ==
    /\ ( /\ out.op = "initialize_pois_for_region"
          /\ out.error = Some("ScanError")
          /\ out.log = AdministrativeScanLog
          /\ TABLES \subseteq tables )
       => has_region_data(poi_table, out.arg)
    /\ (out.op = "initialize_pois_for_region" /\ out.error = Some("ValueError"))
       => out.log = <<>>

\* C19 as amended: poi_scan and administrative_scan are two transactions
\* committed in that order. The POIs are committed before the boundaries
\* are scanned; a failure of administrative_scan leaves them and every
\* boundary as they are, so that has_region_data(region) is True when the
\* region has a POI stored, and only then; boundaries are written behind
\* the commit of the POIs only; an unknown region key raises ValueError
\* before any download or write.
C19_TwoTransactionsInOrder ==
    [][ /\ pc' = "administrative_scan" =>
              /\ pc = "idle"
              /\ poi_table' = poi_table
                                \o PoiScanRows(poi_filter_config, stream', 1, region_key')
              /\ admin_table' = admin_table
        /\ (pc = "administrative_scan" /\ out'.error # None) =>
              /\ out'.log = AdministrativeScanLog
              /\ UNCHANGED storage
              /\ has_region_data(poi_table', region_key)
                   <=> \/ has_region_data(begun.poi_table, region_key)
                       \/ PoiScanRows(poi_filter_config, stream, 1, region_key) # <<>>
        /\ (out'.op = "initialize_pois_for_region" /\ admin_table' # admin_table) =>
              /\ pc = "administrative_scan"
              /\ poi_table' = poi_table
        /\ (out'.op = "initialize_pois_for_region" /\ finder' # None
              /\ pc = "idle" /\ ~RegionKnown(finder'[1].geofabrik_data, out'.arg)) =>
              /\ out'.error = Some("ValueError")
              /\ out'.log = <<>>
              /\ UNCHANGED storage ]_vars

\* administrative_scan failed behind a committed poi_scan: the cafe of the
\* region is stored, no boundary of the region is.
C19_Witness ==
    /\ out.op = "initialize_pois_for_region"
    /\ out.error = Some("ScanError")
    /\ out.log = AdministrativeScanLog
    /\ has_region_data(poi_table, out.arg)
    /\ \A i \in DOMAIN admin_table : admin_table[i].region # out.arg

\* The System row is there and carries a region index.
Ready == system_row # None /\ system_row[1].region_index # None

\* C20: reading PoiIdx.finder raises RuntimeError while there is no System
\* row or its region_index is unset, and then keeps nothing, so that a
\* later read succeeds; the finder is built at most once for an instance,
\* every later read gives that same object, and nothing resets it.
C20_CheckedReadyState ==
    /\ (out.op = "finder" /\ finder = None /\ ~Ready) => out.error = Some(NotReady)
    /\ (out.op = "finder" /\ out.error # None) => finder = None
    /\ (out.op = "finder" /\ Ready) => (out.error = None /\ finder # None)
    /\ probe.built <= 1
    /\ probe.built = 1 => (finder # None /\ finder[1].serial = 1)
    /\ (out.op = "finder" /\ out.error = None) => out.value = Some(1)

====
